---- MODULE Spec2Model ----
(***************************************************************************)
(* Model of app.py: the /process-video endpoint of the Nerfstudio RunPod   *)
(* processor.  Each request is handled by its own thread; a request walks  *)
(* through process_video_endpoint one statement group at a time.  Every    *)
(* call into the environment (Firebase Storage, Firestore, the filesystem, *)
(* the three external ns-* commands) has a nondeterministic outcome.       *)
(***************************************************************************)
EXTENDS Integers, Sequences, FiniteSets, TLC

\* Number of requests handled concurrently by the process.
NumJobs == 2

Jobs == 1..NumJobs

\* Firestore document ids a payload may name.
DocIds == {"d1", "d2"}

\* Values of the optional userId field.
UserIds == {"u1"}

\* Names (strings, as sequences of digits) an entry of nerf_output/splatfacto
\* may have.
RunNames == {<<1, 0>>, <<2>>}

\* The entry names used where the lookup of lines 164-173 is checked on its
\* own: "1", "10", "2", "9".
LocateNames == {<<1>>, <<1, 0>>, <<2>>, <<9>>}

None == "None"

VARIABLES
    db,          \* module global db: TRUE when the Firestore client was set
    bucket,      \* module global bucket: TRUE when the bucket handle was set
    pc,          \* pc[j]: position of request j inside process_video_endpoint
    payload,     \* payload[j]: body of request j
    job_id,      \* job_id[j]: the uuid of request j (0 before line 118)
    config_path, \* config_path[j]: run directory whose config.yml was selected
    exc,         \* exc[j]: exception being handled by the inner handlers
    stderr,      \* stderr[j]: the stderr attribute of that exception (line 215)
    log,         \* log[j]: the environment calls request j made, in order
    result,      \* result[j]: the response returned to the trigger
    dirs,        \* job ids whose directory exists under /tmp/nerfstudio_jobs
    docs,        \* docs[d]: fields of document d of collection 'discoveries'
    blobs        \* blobs[k]: content of the object splat-models/<user>/<doc>.ply

vars == <<db, bucket, pc, payload, job_id, config_path, exc, stderr, log,
          result, dirs, docs, blobs>>

----------------------------------------------------------------------------
(* Payloads.  json says what request.get_json() does with the body.        *)

DictPayloads ==
    [json: {"dict"}, hasVideo: BOOLEAN, hasDoc: BOOLEAN, videoIsStr: BOOLEAN,
     doc: DocIds, user: UserIds \cup {None}]

Payloads ==
    { [json |-> k, hasVideo |-> FALSE, hasDoc |-> FALSE, videoIsStr |-> FALSE,
       doc |-> "d1", user |-> None] : k \in {"invalid", "falsy", "list"} }
    \cup { p \in DictPayloads :
             ~(p.hasVideo /\ p.hasDoc) =>
                 ~p.videoIsStr /\ p.doc = "d1" /\ p.user = None }

\* A request the trigger contract calls valid: a JSON object with both
\* required fields, the object reference being a string.
ValidPayload(p) ==
    p.json = "dict" /\ p.hasVideo /\ p.hasDoc /\ p.videoIsStr

\* line 110: not data or 'videoStoragePath' not in data or ...
\* A JSON array (or string) holding both names passes the membership test.
MissingFields(p) ==
    \/ p.json = "falsy"
    \/ p.json = "dict" /\ ~(p.hasVideo /\ p.hasDoc)

\* line 115: data.get('userId', 'unknown_user')
user_id(p) == IF p.user = None THEN "unknown_user" ELSE p.user

\* an output key that leaves the document id out
splat_storage_path_NoDoc(p) == <<"splat-models", user_id(p), "d1">>

\* line 198: f"splat-models/{user_id}/{doc_id}.ply"
splat_storage_path(p) == <<"splat-models", user_id(p), p.doc>>

StoragePaths == { <<"splat-models", u, d>> : u \in UserIds \cup {"unknown_user"}, d \in DocIds }

\* blob.public_url of an object; NoUrl stands for an absent splatModelUrl
public_url(path) == <<"url", path>>
NoUrl == <<>>

----------------------------------------------------------------------------
(* Responses (jsonify(...), code).                                          *)

NoResult == [code |-> 0, error |-> None]
NotReady == [code |-> 503, error |-> "Backend not fully initialized (Firebase connection missing)."]
BadRequest == [code |-> 400, error |-> "Missing 'videoStoragePath' or 'firestoreDocId' in JSON payload"]
Complete == [code |-> 200, error |-> None]
StageFailed == [code |-> 500, error |-> "Nerfstudio processing failed"]
InternalError == [code |-> 500, error |-> "An internal server error occurred during processing"]
RequestError == [code |-> 500, error |-> "Failed to handle request"]

----------------------------------------------------------------------------
(* Helpers.                                                                *)

Ev(op, out) == [op |-> op, out |-> out]

Logged(j, e) == log' = [log EXCEPT ![j] = Append(@, e)]

\* an identifier scheme that can hand out the same value twice
uuid4_Fixed(used) == {1}

\* uuid.uuid4(): a value no earlier call returned.
uuid4(used) == Jobs \ used

IssuedIds == { job_id[j] : j \in Jobs } \ {0}

\* Python's str <: lexicographic, a proper prefix being smaller.
RECURSIVE StrLess(_, _)
StrLess(a, b) ==
    IF b = <<>> THEN FALSE
    ELSE IF a = <<>> THEN TRUE
    ELSE IF Head(a) # Head(b) THEN Head(a) < Head(b)
    ELSE StrLess(Tail(a), Tail(b))

\* Directory listings of nerf_output/splatfacto: "missing" when the
\* directory does not exist, else the kind of every entry.
EntryKinds == {"absent", "file", "dir", "dir_cfg"}
ListingsOver(names) == [exists: BOOLEAN, entry: [names -> EntryKinds]]
Listings == ListingsOver(RunNames)
NoPath == <<>>

\* lines 166-167: the subdirectories, sorted; training_dirs[-1] is the last.
training_dirs(l) == { n \in DOMAIN l.entry : l.entry[n] \in {"dir", "dir_cfg"} }

\* the last name when names are ordered as numbers: shorter first
Last_Numeric(S) ==
    CHOOSE n \in S : \A m \in S \ {n} :
        Len(m) < Len(n) \/ (Len(m) = Len(n) /\ StrLess(m, n))

Last(S) == CHOOSE n \in S : \A m \in S \ {n} : StrLess(m, n)

\* What the filesystem holds at nerf_output/splatfacto, as lines 164-170
\* tell the cases apart.
ListingClass(l) ==
    IF ~l.exists THEN "missing"
    ELSE IF training_dirs(l) = {} THEN "empty"
    ELSE IF l.entry[Last(training_dirs(l))] # "dir_cfg" THEN "no_config"
    ELSE "has_config"

\* a lookup that falls back to a fixed run directory name
FindConfig_Default(l) ==
    IF ~l.exists \/ training_dirs(l) = {} THEN Last(RunNames)
    ELSE IF l.entry[Last(training_dirs(l))] # "dir_cfg" THEN NoPath
    ELSE Last(training_dirs(l))

\* lines 164-173: the run directory whose config.yml is used, or NoPath
\* when the lookup raises FileNotFoundError.
FindConfig(l) ==
    IF ~l.exists THEN NoPath
    ELSE IF training_dirs(l) = {} THEN NoPath
    ELSE IF l.entry[Last(training_dirs(l))] # "dir_cfg" THEN NoPath
    ELSE Last(training_dirs(l))

\* lines 23-48: db and bucket stay None when an environment variable is
\* missing or a call before their assignment raises; storage.bucket()
\* raising leaves db set and bucket None.
FirebaseInit ==
    { [db |-> TRUE, bucket |-> TRUE],
      [db |-> TRUE, bucket |-> FALSE],
      [db |-> FALSE, bucket |-> FALSE] }

----------------------------------------------------------------------------
Init ==
    /\ \E g \in FirebaseInit : db = g.db /\ bucket = g.bucket
    /\ pc = [j \in Jobs |-> "recv"]
    /\ payload \in [Jobs -> Payloads]
    /\ job_id = [j \in Jobs |-> 0]
    /\ config_path = [j \in Jobs |-> NoPath]
    /\ exc = [j \in Jobs |-> None]
    /\ stderr = [j \in Jobs |-> None]
    /\ log = [j \in Jobs |-> <<>>]
    /\ result = [j \in Jobs |-> NoResult]
    /\ dirs = {}
    /\ docs = [d \in DocIds |-> [processingStatus |-> "pending", splatModelUrl |-> NoUrl]]
    /\ blobs = [k \in StoragePaths |-> 0]

\* return jsonify(...), code
Return(j, r) ==
    /\ pc' = [pc EXCEPT ![j] = "done"]
    /\ result' = [result EXCEPT ![j] = r]
    /\ UNCHANGED <<exc, stderr>>

Goto(j, l) ==
    /\ pc' = [pc EXCEPT ![j] = l]
    /\ UNCHANGED <<exc, stderr, result>>

\* an exception raised inside the inner try block (lines 128-209): control
\* moves to the matching except clause (212 or 224)
Raise(j, kind) ==
    /\ pc' = [pc EXCEPT ![j] = "h_report"]
    /\ exc' = [exc EXCEPT ![j] = kind]
    /\ UNCHANGED <<stderr, result>>

\* the text command cmd wrote to its standard error, named after the command
StageStderr(cmd) == cmd

\* lines 148, 160, 185: subprocess.run is called with check=True only, so
\* the child's stderr is inherited, not piped
capture_output == FALSE

\* CalledProcessError.stderr as subprocess.run sets it: the child's stderr
\* when it was piped, else None
captured_stderr(capture, emitted) == IF capture THEN emitted ELSE None

\* subprocess.run(cmd, check=True) raising CalledProcessError: control moves
\* to the except clause of line 212
RaiseCalledProcessError(j, cmd) ==
    /\ pc' = [pc EXCEPT ![j] = "h_report"]
    /\ exc' = [exc EXCEPT ![j] = "CalledProcessError"]
    /\ stderr' = [stderr EXCEPT ![j] = captured_stderr(capture_output, StageStderr(cmd))]
    /\ UNCHANGED result

\* an update that never sends splatModelUrl
update_firestore_NoUrl(ds, doc_id, status, splat_url) ==
    [ds EXCEPT ![doc_id] =
        [processingStatus |-> status, splatModelUrl |-> @.splatModelUrl]]

\* lines 78-89: doc_ref.update merges the given fields into the document
update_firestore(ds, doc_id, status, splat_url) ==
    [ds EXCEPT ![doc_id] =
        [processingStatus |-> status,
         splatModelUrl |-> IF splat_url # NoUrl THEN splat_url ELSE @.splatModelUrl]]

\* shutil.rmtree(job_dir) that did not raise
rmtree(ds, id) == ds \ {id}

\* os.makedirs(job_dir, exist_ok=True) that did not raise
makedirs(ds, id) == ds \cup {id}

\* a readiness check that looks at the Firestore client only
CheckInit_DbOnly(j) ==
    /\ pc[j] = "recv"
    /\ IF ~db THEN Return(j, NotReady) ELSE Goto(j, "parse")
    /\ UNCHANGED <<db, bucket, payload, job_id, config_path, log, dirs, docs, blobs>>

\* lines 103-106
CheckInit(j) ==
    /\ pc[j] = "recv"
    /\ IF ~(db /\ bucket) THEN Return(j, NotReady) ELSE Goto(j, "parse")
    /\ UNCHANGED <<db, bucket, payload, job_id, config_path, log, dirs, docs, blobs>>

\* lines 108-115, and the outer handler 236-239 for what they raise
ParseRequest(j) ==
    /\ pc[j] = "parse"
    /\ IF payload[j].json = "invalid" THEN Return(j, RequestError)
       ELSE IF MissingFields(payload[j]) THEN Return(j, BadRequest)
       ELSE IF payload[j].json = "list" THEN Return(j, RequestError)
       ELSE Goto(j, "mkdir")
    /\ UNCHANGED <<db, bucket, payload, job_id, config_path, log, dirs, docs, blobs>>

\* lines 118-122; a failing makedirs is caught by the outer handler 236-239
CreateWorkspace(j) ==
    /\ pc[j] = "mkdir"
    /\ \E id \in uuid4(IssuedIds) :
        /\ job_id' = [job_id EXCEPT ![j] = id]
        /\ \/ /\ dirs' = makedirs(dirs, id)
              /\ Logged(j, Ev("makedirs", "ok"))
              /\ Goto(j, "paths")
           \/ /\ UNCHANGED dirs
              /\ Logged(j, Ev("makedirs", "error"))
              /\ Return(j, RequestError)
    /\ UNCHANGED <<db, bucket, payload, config_path, docs, blobs>>

\* lines 124-126: os.path.basename raises TypeError on a non-string, which
\* the outer handler 236-239 catches
BuildPaths(j) ==
    /\ pc[j] = "paths"
    /\ IF payload[j].videoIsStr THEN Goto(j, "download") ELSE Return(j, RequestError)
    /\ UNCHANGED <<db, bucket, payload, job_id, config_path, log, dirs, docs, blobs>>

\* lines 129-133
Download(j) ==
    /\ pc[j] = "download"
    /\ \/ Logged(j, Ev("download", "ok")) /\ Goto(j, "stage1")
       \/ Logged(j, Ev("download", "error")) /\ Raise(j, "Exception")
    /\ UNCHANGED <<db, bucket, payload, job_id, config_path, dirs, docs, blobs>>

\* subprocess.run without check=True: the exit status is ignored
subprocess_run_Unchecked(j, cmd, next) ==
    \/ Logged(j, Ev(cmd, "exit0")) /\ Goto(j, next)
    \/ Logged(j, Ev(cmd, "nonzero")) /\ Goto(j, next)
    \/ Logged(j, Ev(cmd, "oserror")) /\ Raise(j, "OSError")

\* subprocess.run(cmd, check=True): exit status zero, a non-zero exit status
\* (CalledProcessError), or the program could not be started (OSError)
subprocess_run(j, cmd, next) ==
    \/ Logged(j, Ev(cmd, "exit0")) /\ Goto(j, next)
    \/ Logged(j, Ev(cmd, "nonzero")) /\ RaiseCalledProcessError(j, cmd)
    \/ Logged(j, Ev(cmd, "oserror")) /\ Raise(j, "OSError")

\* lines 140-149
RunProcessData(j) ==
    /\ pc[j] = "stage1"
    /\ subprocess_run(j, "ns-process-data", "stage2")
    /\ UNCHANGED <<db, bucket, payload, job_id, config_path, dirs, docs, blobs>>

\* lines 151-161
RunTrain(j) ==
    /\ pc[j] = "stage2"
    /\ subprocess_run(j, "ns-train", "locate")
    /\ UNCHANGED <<db, bucket, payload, job_id, config_path, dirs, docs, blobs>>

\* lines 163-173 on listing l; seen is what the history keeps of l
LocateWith(j, l, seen) ==
    IF FindConfig(l) = NoPath
    THEN /\ Logged(j, Ev("locate", seen))
         /\ Raise(j, "FileNotFoundError")
         /\ UNCHANGED config_path
    ELSE /\ Logged(j, Ev("locate", seen))
         /\ config_path' = [config_path EXCEPT ![j] = FindConfig(l)]
         /\ Goto(j, "stage3")

\* lines 163-173; l is what the filesystem holds at nerf_output/splatfacto
LocateConfig(j) ==
    /\ pc[j] = "locate"
    /\ \E l \in Listings : LocateWith(j, l, ListingClass(l))
    /\ UNCHANGED <<db, bucket, payload, job_id, dirs, docs, blobs>>

\* lines 163-173 with the whole listing kept in the history
LocateRecorded(j) ==
    /\ pc[j] = "locate"
    /\ \E l \in ListingsOver(LocateNames) : LocateWith(j, l, l)
    /\ UNCHANGED <<db, bucket, payload, job_id, dirs, docs, blobs>>

\* lines 175-186
RunExport(j) ==
    /\ pc[j] = "stage3"
    /\ subprocess_run(j, "ns-export", "verify")
    /\ UNCHANGED <<db, bucket, payload, job_id, config_path, dirs, docs, blobs>>

\* the pipeline without the check of lines 188-189
VerifyArtifact_Skipped(j) ==
    /\ pc[j] = "verify"
    /\ \E exists \in BOOLEAN :
        Logged(j, Ev("verify", IF exists THEN "present" ELSE "absent")) /\ Goto(j, "upload")
    /\ UNCHANGED <<db, bucket, payload, job_id, config_path, dirs, docs, blobs>>

\* lines 188-189; exists is os.path.exists(ply_output_path)
VerifyArtifact(j) ==
    /\ pc[j] = "verify"
    /\ \E exists \in BOOLEAN :
        IF exists
        THEN Logged(j, Ev("verify", "present")) /\ Goto(j, "upload")
        ELSE Logged(j, Ev("verify", "absent")) /\ Raise(j, "FileNotFoundError")
    /\ UNCHANGED <<db, bucket, payload, job_id, config_path, dirs, docs, blobs>>

\* lines 195-200 and upload_splat 66-76: upload_from_filename may raise
\* (nothing stored), make_public may raise (the object is stored already)
Upload(j) ==
    /\ pc[j] = "upload"
    /\ \/ /\ Logged(j, Ev("upload", "ok"))
          /\ blobs' = [blobs EXCEPT ![splat_storage_path(payload[j])] = job_id[j]]
          /\ Goto(j, "report")
       \/ /\ Logged(j, Ev("upload", "public_error"))
          /\ blobs' = [blobs EXCEPT ![splat_storage_path(payload[j])] = job_id[j]]
          /\ Raise(j, "Exception")
       \/ /\ Logged(j, Ev("upload", "error"))
          /\ UNCHANGED blobs
          /\ Raise(j, "Exception")
    /\ UNCHANGED <<db, bucket, payload, job_id, config_path, dirs, docs>>

\* a 'complete' write whose failure is dropped like that of the 'failed' write
ReportComplete_Swallow(j) ==
    /\ pc[j] = "report"
    /\ \/ /\ Logged(j, Ev("update_complete", "ok"))
          /\ docs' = update_firestore(docs, payload[j].doc, "complete",
                                      public_url(splat_storage_path(payload[j])))
       \/ /\ Logged(j, Ev("update_complete", "error"))
          /\ UNCHANGED docs
    /\ Goto(j, "cleanup")
    /\ UNCHANGED <<db, bucket, payload, job_id, config_path, dirs, blobs>>

\* lines 202-203
ReportComplete(j) ==
    /\ pc[j] = "report"
    /\ \/ /\ Logged(j, Ev("update_complete", "ok"))
          /\ docs' = update_firestore(docs, payload[j].doc, "complete",
                                      public_url(splat_storage_path(payload[j])))
          /\ Goto(j, "cleanup")
       \/ /\ Logged(j, Ev("update_complete", "error"))
          /\ UNCHANGED docs
          /\ Raise(j, "Exception")
    /\ UNCHANGED <<db, bucket, payload, job_id, config_path, dirs, blobs>>

\* lines 205-209
CleanupSuccess(j) ==
    /\ pc[j] = "cleanup"
    /\ \/ /\ Logged(j, Ev("rmtree", "ok"))
          /\ dirs' = rmtree(dirs, job_id[j])
          /\ Return(j, Complete)
       \/ /\ Logged(j, Ev("rmtree", "error"))
          /\ UNCHANGED dirs
          /\ Raise(j, "OSError")
    /\ UNCHANGED <<db, bucket, payload, job_id, config_path, docs, blobs>>

\* lines 212-219 and 224-230: the 'failed' write of either except clause;
\* what the write raises is printed and dropped
HandlerReport(j) ==
    /\ pc[j] = "h_report"
    /\ \/ /\ Logged(j, Ev("update_failed", "ok"))
          /\ docs' = update_firestore(docs, payload[j].doc, "failed", NoUrl)
       \/ /\ Logged(j, Ev("update_failed", "error"))
          /\ UNCHANGED docs
    /\ Goto(j, "h_clean")
    /\ UNCHANGED <<db, bucket, payload, job_id, config_path, dirs, blobs>>

\* the response of the except clause handling exception kind e
HandlerResult(e) == IF e = "CalledProcessError" THEN StageFailed ELSE InternalError

\* except clauses that keep the directory of a failed job
HandlerCleanup_NoRemoval(j) ==
    /\ pc[j] = "h_clean"
    /\ Return(j, HandlerResult(exc[j]))
    /\ UNCHANGED <<db, bucket, payload, job_id, config_path, log, dirs, docs, blobs>>

\* lines 220-222 and 231-233; what rmtree raises here leaves the inner try
\* statement and is caught by the outer handler 236-239
HandlerCleanup(j) ==
    /\ pc[j] = "h_clean"
    /\ IF job_id[j] \in dirs
       THEN \/ /\ Logged(j, Ev("rmtree", "ok"))
               /\ dirs' = rmtree(dirs, job_id[j])
               /\ Return(j, HandlerResult(exc[j]))
            \/ /\ Logged(j, Ev("rmtree", "error"))
               /\ UNCHANGED dirs
               /\ Return(j, RequestError)
       ELSE /\ UNCHANGED <<log, dirs>>
            /\ Return(j, HandlerResult(exc[j]))
    /\ UNCHANGED <<db, bucket, payload, job_id, config_path, docs, blobs>>

Next ==
    \E j \in Jobs :
        \/ CheckInit(j)
        \/ ParseRequest(j)
        \/ CreateWorkspace(j)
        \/ BuildPaths(j)
        \/ Download(j)
        \/ RunProcessData(j)
        \/ RunTrain(j)
        \/ LocateConfig(j)
        \/ RunExport(j)
        \/ VerifyArtifact(j)
        \/ Upload(j)
        \/ ReportComplete(j)
        \/ CleanupSuccess(j)
        \/ HandlerReport(j)
        \/ HandlerCleanup(j)

Spec == Init /\ [][Next]_vars

\* Workspace creation (lines 103-126) started with directories already
\* present under /tmp/nerfstudio_jobs, among them names uuid4 can return.
InitCollision ==
    /\ db = TRUE /\ bucket = TRUE
    /\ pc = [j \in Jobs |-> "recv"]
    /\ payload \in [Jobs -> Payloads]
    /\ job_id = [j \in Jobs |-> 0]
    /\ config_path = [j \in Jobs |-> NoPath]
    /\ exc = [j \in Jobs |-> None]
    /\ stderr = [j \in Jobs |-> None]
    /\ log = [j \in Jobs |-> <<>>]
    /\ result = [j \in Jobs |-> NoResult]
    /\ dirs \in SUBSET Jobs
    /\ docs = [d \in DocIds |-> [processingStatus |-> "pending", splatModelUrl |-> NoUrl]]
    /\ blobs = [k \in StoragePaths |-> 0]

NextCollision ==
    \E j \in Jobs :
        \/ CheckInit(j)
        \/ ParseRequest(j)
        \/ CreateWorkspace(j)
        \/ BuildPaths(j)

SpecCollision == InitCollision /\ [][NextCollision]_vars

\* One request run through the pipeline on every listing over LocateNames.
InitLocate ==
    /\ Init
    /\ db /\ bucket
    /\ \A j \in Jobs \ {1} : payload[j].json = "invalid"

NextLocate ==
    \E j \in {1} :
        \/ CheckInit(j)
        \/ ParseRequest(j)
        \/ CreateWorkspace(j)
        \/ BuildPaths(j)
        \/ Download(j)
        \/ RunProcessData(j)
        \/ RunTrain(j)
        \/ LocateRecorded(j)
        \/ RunExport(j)
        \/ VerifyArtifact(j)
        \/ Upload(j)
        \/ ReportComplete(j)
        \/ CleanupSuccess(j)
        \/ HandlerReport(j)
        \/ HandlerCleanup(j)

SpecLocate == InitLocate /\ [][NextLocate]_vars

----------------------------------------------------------------------------
(* Properties of process_video_endpoint.                                   *)

\* request j passed the checks of lines 103-115 and names a string path
Valid(j) == db /\ bucket /\ ValidPayload(payload[j])

Done(j) == pc[j] = "done"

Has(j, e) == \E i \in 1..Len(log[j]) : log[j][i] = e

HasOp(j, op) == \E i \in 1..Len(log[j]) : log[j][i].op = op

IsStatusWrite(e) == e.op \in {"update_complete", "update_failed"}

StatusWrites(j) == SelectSeq(log[j], IsStatusWrite)

StageOps == {"ns-process-data", "ns-train", "ns-export"}

ForwardOps ==
    {"makedirs", "download", "locate", "verify", "upload", "update_complete"} \cup StageOps

InHandler(j) == pc[j] \in {"h_report", "h_clean", "done"}

\* from position i on, request j only ran its failure path: a 'failed'
\* write first (once the except clause got that far), nothing of the
\* forward pipeline
FailurePathAfter(j, i) ==
    /\ InHandler(j)
    /\ \A k \in (i+1)..Len(log[j]) : log[j][k].op \notin ForwardOps
    /\ pc[j] \in {"h_clean", "done"} =>
          /\ Len(log[j]) > i
          /\ log[j][i+1].op = "update_failed"

\* C1: every valid request that has returned attempted exactly one terminal
\* status write ('complete' or 'failed'), never zero and never two.
C1_ExactlyOneStatusWrite ==
    \A j \in Jobs : Valid(j) /\ Done(j) => Len(StatusWrites(j)) = 1

C3_StatusMonotonic ==
    \A j \in Jobs :
        \A i \in 1..Len(StatusWrites(j)) :
            StatusWrites(j)[i].out = "ok" => i = Len(StatusWrites(j))

\* C4: a failed workspace removal does not change what the trigger receives:
\* the success result when 'complete' was recorded, else the response of the
\* except clause that handles the pipeline error.
C4_RemovalFailureNotMasking ==
    \A j \in Jobs :
        Valid(j) /\ Done(j) /\ Has(j, Ev("rmtree", "error")) =>
            IF Has(j, Ev("update_complete", "ok"))
            THEN result[j] = Complete
            ELSE result[j] = HandlerResult(exc[j])

\* C5: after a stage exits non-zero the request invokes no later stage, no
\* upload and no 'complete' write, the status write it attempts is 'failed';
\* after a non-zero ns-process-data neither ns-train nor ns-export is invoked.
C5_StageFailureStops ==
    \A j \in Jobs :
        \A i \in 1..Len(log[j]) :
            log[j][i].op \in StageOps /\ log[j][i].out = "nonzero" =>
                /\ FailurePathAfter(j, i)
                /\ exc[j] = "CalledProcessError"
                /\ ~HasOp(j, "upload") /\ ~HasOp(j, "update_complete")
                /\ log[j][i].op = "ns-process-data" =>
                      ~HasOp(j, "ns-train") /\ ~HasOp(j, "ns-export")

C5_Witness ==
    \E j \in Jobs :
        /\ Done(j)
        /\ Has(j, Ev("ns-process-data", "nonzero"))
        /\ HasOp(j, "update_failed")

\* C6: when ns-train exited zero and nerf_output/splatfacto is missing or has
\* no subdirectory, the lookup raises FileNotFoundError, ns-export is never
\* invoked, nothing is uploaded and the request takes the failure path with a
\* 'failed' write attempt.
C6_EmptyOutputFails ==
    \A j \in Jobs :
        \A i \in 1..Len(log[j]) :
            log[j][i].op = "locate" /\ log[j][i].out \in {"missing", "empty"} =>
                /\ log[j][i-1] = Ev("ns-train", "exit0")
                /\ FailurePathAfter(j, i)
                /\ exc[j] = "FileNotFoundError"
                /\ ~HasOp(j, "ns-export") /\ ~HasOp(j, "upload")
                /\ ~HasOp(j, "update_complete")

C6_Witness ==
    \E j \in Jobs :
        /\ Done(j)
        /\ Has(j, Ev("locate", "empty"))
        /\ HasOp(j, "update_failed")

\* C7: when ns-export exited zero and nerf_output/splat.ply does not exist,
\* FileNotFoundError is raised: nothing is uploaded, no 'complete' write is
\* made, a 'failed' write is attempted and the trigger gets a failure.
C7_MissingArtifactFails ==
    \A j \in Jobs :
        \A i \in 1..Len(log[j]) :
            log[j][i] = Ev("verify", "absent") =>
                /\ log[j][i-1] = Ev("ns-export", "exit0")
                /\ FailurePathAfter(j, i)
                /\ exc[j] = "FileNotFoundError"
                /\ ~HasOp(j, "upload") /\ ~HasOp(j, "update_complete")
                /\ Done(j) => result[j].code = 500

C7_Witness ==
    \E j \in Jobs :
        /\ Done(j)
        /\ Has(j, Ev("verify", "absent"))
        /\ Has(j, Ev("update_failed", "ok"))
        /\ result[j] = InternalError

\* C8: with Firebase initialized, a payload that is malformed or lacks a
\* required field is answered with the bad-request response, before any
\* workspace, transfer, stage or status write.
C8_BadPayloadRejected ==
    \A j \in Jobs :
        db /\ bucket /\ ~ValidPayload(payload[j]) /\ Done(j) =>
            result[j] = BadRequest /\ log[j] = <<>>

\* C9: a request that passed validation never returns without a status
\* write attempt, also when creating its workspace failed.
C9_StatusWriteUnlessInvalid ==
    \A j \in Jobs :
        Valid(j) /\ Done(j) => HasOp(j, "update_failed") \/ HasOp(j, "update_complete")

\* C10: two valid requests with different document ids have different
\* workspace directories, and a step of one of them leaves the other's
\* workspace directory and status document as they were.
C10_DistinctWorkspaces ==
    \A j, k \in Jobs :
        j # k /\ job_id[j] # 0 /\ job_id[k] # 0 => job_id[j] # job_id[k]

C10_StepIsolated ==
    \A j, k \in Jobs :
        (/\ j # k /\ Valid(j) /\ Valid(k)
         /\ payload[j].doc # payload[k].doc
         /\ pc'[k] # pc[k]) =>
            /\ docs'[payload[j].doc] = docs[payload[j].doc]
            /\ (job_id[j] \in dirs') = (job_id[j] \in dirs)
            /\ job_id'[j] = job_id[j]

C10_JobsIndependent == []C10_DistinctWorkspaces /\ [][C10_StepIsolated]_vars

C10_Witness ==
    \E j, k \in Jobs :
        /\ j # k /\ Valid(j) /\ Valid(k)
        /\ payload[j].doc # payload[k].doc
        /\ job_id[k] \in dirs
        /\ Done(j) /\ result[j] = Complete
        /\ docs[payload[j].doc].processingStatus = "complete"
        /\ docs[payload[k].doc].processingStatus = "pending"

\* C11: workspace creation fails with the resource error when the directory
\* named by the job id already exists; no request goes on with a directory
\* that existed before its own creation step.
C11_CreateStep ==
    \A j \in Jobs :
        pc[j] = "mkdir" /\ pc'[j] # "mkdir" /\ job_id'[j] \in dirs =>
            /\ pc'[j] = "done"
            /\ result'[j].code = 500
            /\ log'[j] = <<Ev("makedirs", "error")>>

C11_CollisionRejected == [][C11_CreateStep]_vars

\* C12: while db or bucket is unset every request gets the not-ready
\* response, which differs from the bad-request and failure responses, before
\* the payload is read and with no job id, directory, transfer, stage or
\* status write.
C12_NotReadyRejects ==
    ~(db /\ bucket) =>
        /\ \A j \in Jobs :
              /\ pc[j] \in {"recv", "done"}
              /\ Done(j) => result[j] = NotReady
              /\ job_id[j] = 0 /\ log[j] = <<>>
        /\ NotReady.code \notin {BadRequest.code, InternalError.code, Complete.code}
        /\ dirs = {}
        /\ \A d \in DocIds : docs[d].processingStatus = "pending"
        /\ \A k \in StoragePaths : blobs[k] = 0

C12_Witness ==
    \E j \in Jobs :
        /\ db /\ ~bucket
        /\ ValidPayload(payload[j])
        /\ Done(j) /\ result[j] = NotReady

\* C13: a status document carries an artifact URL only while its
\* processingStatus is 'complete'.
C13_UrlOnlyWhenComplete ==
    \A d \in DocIds :
        docs[d].splatModelUrl # NoUrl => docs[d].processingStatus = "complete"

\* C14: the CalledProcessError handled at line 212 carries what the failed
\* stage wrote to its standard error.
C14_StderrAttached ==
    \A j \in Jobs :
        \A i \in 1..Len(log[j]) :
            log[j][i].out = "nonzero" /\ InHandler(j) =>
                /\ exc[j] = "CalledProcessError"
                /\ stderr[j] = StageStderr(log[j][i].op)

\* the object of request j is in the bucket: upload_from_filename returned
Stored(j) == Has(j, Ev("upload", "ok")) \/ Has(j, Ev("upload", "public_error"))

\* the owner and document a request publishes for
Target(j) == <<user_id(payload[j]), payload[j].doc>>

\* C15 as stated: a request that returned success finds, under the reference
\* it returned, the artifact its own export stage produced, whatever other
\* requests ran meanwhile.
C15_RoundTrip ==
    \A j \in Jobs :
        Done(j) /\ result[j] = Complete =>
            blobs[splat_storage_path(payload[j])] = job_id[j]

\* C15 amended: right after upload_splat returns the object under the
\* request's key is the request's own artifact, and it stays so up to and
\* after the success return as long as no other request has stored an object
\* for the same owner and document.
C15_UploadStep ==
    \A j \in Jobs :
        pc[j] = "upload" /\ pc'[j] = "report" =>
            blobs'[splat_storage_path(payload[j])] = job_id[j]

C15_OwnKeyState ==
    \A j \in Jobs :
        (/\ Has(j, Ev("upload", "ok"))
         /\ \A k \in Jobs \ {j} : Stored(k) => Target(k) # Target(j)) =>
            blobs[splat_storage_path(payload[j])] = job_id[j]

C15_RoundTripOwnKey == []C15_OwnKeyState /\ [][C15_UploadStep]_vars

C15_Witness ==
    \E j, k \in Jobs :
        /\ j # k /\ Target(k) # Target(j)
        /\ Done(j) /\ result[j] = Complete
        /\ Stored(k)
        /\ blobs[splat_storage_path(payload[j])] = job_id[j]

\* C16: a request that took the failure path attempted the 'failed' write,
\* then the workspace removal, then returned the response of the except
\* clause handling the original error, also when the 'failed' write failed.
C16_FailurePathOrder ==
    \A j \in Jobs :
        Done(j) /\ exc[j] # None =>
            /\ Len(log[j]) >= 2
            /\ log[j][Len(log[j]) - 1].op = "update_failed"
            /\ log[j][Len(log[j])].op = "rmtree"
            /\ result[j] = HandlerResult(exc[j])

\* C17: the forward steps of a request happen in the fixed order, each at
\* most once and only after the previous one succeeded; the success-path
\* removal follows a successful 'complete' write; the success result follows
\* all of them.
ForwardSeq ==
    <<"makedirs", "download", "ns-process-data", "ns-train", "locate",
      "ns-export", "verify", "upload", "update_complete">>

Succeeded(e) == e.out \in {"ok", "exit0", "has_config", "present"}

C17_StrictlySequential ==
    \A j \in Jobs :
        /\ \A i \in 1..Len(log[j]) :
              /\ log[j][i].op \in ForwardOps =>
                    /\ i <= Len(ForwardSeq)
                    /\ log[j][i].op = ForwardSeq[i]
                    /\ i > 1 => Succeeded(log[j][i-1])
              /\ (/\ log[j][i].op = "rmtree"
                  /\ \A k \in 1..(i-1) : log[j][k].op # "update_failed") =>
                    /\ i = Len(ForwardSeq) + 1
                    /\ log[j][i-1] = Ev("update_complete", "ok")
        /\ Done(j) /\ result[j] = Complete =>
              /\ Len(log[j]) = Len(ForwardSeq) + 1
              /\ \A i \in 1..Len(ForwardSeq) : Succeeded(log[j][i])
              /\ log[j][Len(log[j])] = Ev("rmtree", "ok")

C17_Witness ==
    \E j \in Jobs :
        /\ Done(j) /\ result[j] = Complete
        /\ Has(j, Ev("update_complete", "ok"))

\* the subdirectories of a recorded listing
SubDirs(l) == { n \in DOMAIN l.entry : l.entry[n] \in {"dir", "dir_cfg"} }

\* C18: on every listing with at least one subdirectory the lookup takes the
\* subdirectory whose name is last in Python's string order, plain files not
\* counting; ns-export gets the config.yml of that subdirectory, and when it
\* has none the request fails instead of using an earlier subdirectory.
C18_LatestRunSelected ==
    /\ StrLess(<<1>>, <<1, 0>>) /\ StrLess(<<1, 0>>, <<2>>) /\ StrLess(<<2>>, <<9>>)
    /\ \A j \in Jobs :
        \A i \in 1..Len(log[j]) :
            log[j][i].op = "locate" =>
                LET l == log[j][i].out IN
                (l.exists /\ SubDirs(l) # {}) =>
                    \E n \in SubDirs(l) :
                        /\ \A m \in SubDirs(l) \ {n} : StrLess(m, n)
                        /\ IF l.entry[n] = "dir_cfg"
                           THEN /\ config_path[j] = n
                                /\ IF Len(log[j]) = i THEN pc[j] = "stage3"
                                   ELSE log[j][i+1].op = "ns-export"
                           ELSE /\ config_path[j] = NoPath
                                /\ exc[j] = "FileNotFoundError"
                                /\ ~HasOp(j, "ns-export")

C18_Witness ==
    \E j \in Jobs :
        /\ Done(j) /\ result[j] = Complete
        /\ \E i \in 1..Len(log[j]) :
              /\ log[j][i].op = "locate"
              /\ log[j][i].out.entry[<<1>>] = "dir"
              /\ log[j][i].out.entry[<<1, 0>>] = "dir_cfg"
              /\ log[j][i].out.entry[<<2>>] = "dir_cfg"
              /\ log[j][i].out.entry[<<9>>] = "file"
        /\ config_path[j] = <<2>>

\* C19 as stated: a request whose artifact was stored under its output key
\* ends with 'complete' recorded and the success result.
C19_PublishedImpliesComplete ==
    \A j \in Jobs :
        Done(j) /\ Stored(j) =>
            /\ result[j] = Complete
            /\ Has(j, Ev("update_complete", "ok"))
            /\ ~HasOp(j, "update_failed")

\* C19 amended: a request that returned success stored its artifact, made a
\* successful 'complete' write and no 'failed' write, and the document holds
\* status 'complete' with the artifact's URL unless another request wrote
\* the same document.
C19_SuccessImpliesPublished ==
    \A j \in Jobs :
        Done(j) /\ result[j] = Complete =>
            /\ Has(j, Ev("upload", "ok"))
            /\ Has(j, Ev("update_complete", "ok"))
            /\ ~HasOp(j, "update_failed")
            /\ docs[payload[j].doc].splatModelUrl # NoUrl
            /\ (\A k \in Jobs \ {j} :
                   payload[k].doc # payload[j].doc \/ StatusWrites(k) = <<>>) =>
                  docs[payload[j].doc] =
                      [processingStatus |-> "complete",
                       splatModelUrl |-> public_url(<<"splat-models", user_id(payload[j]), payload[j].doc>>)]

C19_Witness ==
    \E j \in Jobs :
        /\ Done(j) /\ result[j] = Complete
        /\ docs[payload[j].doc].processingStatus = "complete"
        /\ blobs[splat_storage_path(payload[j])] = job_id[j]

====
